---- MODULE Spec2Model ----
(***************************************************************************)
(* Model of examples/chart.rs: main (terminal setup, run_app, terminal     *)
(* restoration), the run_app render/poll/tick loop, and the App state      *)
(* (two rolling windows fed by SinSignal generators and the visible        *)
(* x-range).                                                               *)
(*                                                                         *)
(* Numbers.  An f64 of the program is held as the integer number of       *)
(* units of 2^-56 it is worth (every f64 the program computes is a         *)
(* non-negative multiple of 2^-56), written as three limbs <<hi, mid, lo>> *)
(* in base 2^21, the high limb unbounded.  F64Add is the IEEE-754         *)
(* binary64 sum: the exact sum rounded to 53 significant bits, to nearest, *)
(* ties to even.                                                           *)
(* The y of a point, sin(x / period) * scale, is kept as the term          *)
(* SinY(x, period, scale).                                                 *)
(*                                                                         *)
(* Time.  Durations are in milliseconds.  elapsed is last_tick.elapsed(),  *)
(* the time since last_tick; it grows while terminal.draw and event::poll  *)
(* run and becomes 0 when last_tick is set to Instant::now().              *)
(*                                                                         *)
(* Spec follows the whole program, with every duration a whole number of   *)
(* milliseconds.  SpecApp follows an App on its own: App::new, then        *)
(* App::on_tick any number of times.                                       *)
(***************************************************************************)
EXTENDS Integers, Sequences, FiniteSets

VARIABLES pc, term, shown_cursor, app, elapsed, timeout, event, frame,
          res, ret, printed, ticks

vars == <<pc, term, shown_cursor, app, elapsed, timeout, event, frame,
          res, ret, printed, ticks>>

(***************************************************************************)
(* Bounds of the model.                                                    *)
(***************************************************************************)
\* The most ticks run_app is followed through.
MaxTicks == 1

\* The most ticks an App is followed through on its own (SpecApp).
MaxAppTicks == 120

\* The longest time (ms) one terminal.draw takes.
MaxDelay == 5

\* The longest time (ms) by which event::poll returns after its timeout
\* has passed.
MaxLate == 4

(***************************************************************************)
(* Program constants.                                                      *)
(***************************************************************************)
TickRate == 250
WindowLen == 200
Drain1 == 5
Take1 == 5
Drain2 == 10
Take2 == 10

(***************************************************************************)
(* f64                                                                     *)
(***************************************************************************)
LimbBase == 2^21

\* The value of <<hi, mid, lo>> is (hi * LimbBase + mid) * LimbBase + lo
\* units of 2^-56.
Normalise(v) ==
  LET m == v[2] + v[3] \div LimbBase
  IN <<v[1] + m \div LimbBase, m % LimbBase, v[3] % LimbBase>>

BitLen(n) ==
  IF n = 0 THEN 0 ELSE CHOOSE k \in 1..30 : 2^(k - 1) <= n /\ n < 2^k

\* Number of significant bits of the value, counted from the unit bit.
Bits(v) ==
  IF v[1] > 0 THEN 42 + BitLen(v[1])
  ELSE IF v[2] > 0 THEN 21 + BitLen(v[2])
  ELSE BitLen(v[3])

\* Round an exact value to the 53-bit significand of an f64: to nearest,
\* ties to even.  The bits dropped (fewer than 21, the value being below
\* 2^73 units) all lie in the low limb.
RoundF64(v) ==
  LET k == Bits(v) - 53 IN
  IF k <= 0 THEN v
  ELSE LET p == 2^k
           rem == v[3] % p
           half == p \div 2
           odd == (v[3] \div p) % 2 = 1
           up == rem > half \/ (rem = half /\ odd)
       IN Normalise(<<v[1], v[2], v[3] - rem + (IF up THEN p ELSE 0)>>)

ExactAdd(a, b) == Normalise(<<a[1] + b[1], a[2] + b[2], a[3] + b[3]>>)

\* a + b on f64.
F64Add(a, b) == RoundF64(ExactAdd(a, b))

\* a / 2.0 on f64 (exact: a power-of-two scaling).
F64Half(a) ==
  <<a[1] \div 2,
    (a[2] + (a[1] % 2) * LimbBase) \div 2,
    (a[3] + (a[2] % 2) * LimbBase) \div 2>>

F64Less(a, b) ==
  \/ a[1] < b[1]
  \/ a[1] = b[1] /\ a[2] < b[2]
  \/ a[1] = b[1] /\ a[2] = b[2] /\ a[3] < b[3]

\* The f64 of an integer literal n.0 (n * 2^56 units).
F64Int(n) == <<n * 2^14, 0, 0>>

\* The f64 literals 0.1 (0x3FB999999999999A) and 0.2 (0x3FC999999999999A):
\* 0x1999999999999A and 0x33333333333334 units.
F64Tenth == <<1638, 838860, 1677722>>
F64Fifth == <<3276, 1677721, 1258292>>

(***************************************************************************)
(* SinSignal                                                               *)
(***************************************************************************)
SinY(x, period, scale) == [sin_of |-> <<x, period>>, times |-> scale]

SinSignalNew(interval, period, scale) ==
  [x |-> F64Int(0), interval |-> interval, period |-> period, scale |-> scale]

SinSignalNextStuck(s) ==
  [item |-> <<"Some", <<s.x, SinY(s.x, s.period, s.scale)>> >>,
   signal |-> s]

SinSignalNext(s) ==
  [item |-> <<"Some", <<s.x, SinY(s.x, s.period, s.scale)>> >>,
   signal |-> [s EXCEPT !.x = F64Add(s.x, s.interval)]]

\* signal.by_ref().take(n): calls next() up to n times, in order, stopping
\* at the first None; the generator keeps the position it reached.  The n
\* calls are split in halves (first half, then the rest from where the
\* first half left the generator) to keep the evaluation shallow.
RECURSIVE Take(_, _)
Take(s, n) ==
  IF n = 0 THEN [items |-> <<>>, signal |-> s]
  ELSE IF n = 1
  THEN LET r == SinSignalNext(s) IN
       [items |-> IF r.item[1] = "Some" THEN <<r.item[2]>> ELSE <<>>,
        signal |-> r.signal]
  ELSE LET h == n \div 2
           a == Take(s, h)
       IN IF Len(a.items) < h THEN a
          ELSE LET b == Take(a.signal, n - h) IN
               [items |-> a.items \o b.items, signal |-> b.signal]

(***************************************************************************)
(* App                                                                     *)
(***************************************************************************)
NoApp == [signal1 |-> <<>>, data1 |-> <<>>, signal2 |-> <<>>, data2 |-> <<>>,
          window |-> <<>>]

AppNew ==
  LET t1 == Take(SinSignalNew(F64Fifth, F64Int(3), F64Int(18)), WindowLen)
      t2 == Take(SinSignalNew(F64Tenth, F64Int(2), F64Int(10)), WindowLen)
  IN [signal1 |-> t1.signal, data1 |-> t1.items,
      signal2 |-> t2.signal, data2 |-> t2.items,
      window |-> <<F64Int(0), F64Int(20)>>]

\* Vec::drain(0..n) panics when n exceeds the length.
DrainInRange(v, n) == n <= Len(v)

Drain(v, n) == SubSeq(v, n + 1, Len(v))

OnTickPanics(a) ==
  \/ ~DrainInRange(a.data1, Drain1)
  \/ ~DrainInRange(a.data2, Drain2)

\* Variants of on_tick with a slip in one statement.
OnTickShortTake(a) ==
  LET t1 == Take(a.signal1, Take1 - 1)
      t2 == Take(a.signal2, Take2)
  IN [signal1 |-> t1.signal,
      data1 |-> Drain(a.data1, Drain1) \o t1.items,
      signal2 |-> t2.signal,
      data2 |-> Drain(a.data2, Drain2) \o t2.items,
      window |-> <<F64Add(a.window[1], F64Int(1)),
                   F64Add(a.window[2], F64Int(1))>>]

OnTickLeftOnly(a) ==
  LET t1 == Take(a.signal1, Take1)
      t2 == Take(a.signal2, Take2)
  IN [signal1 |-> t1.signal,
      data1 |-> Drain(a.data1, Drain1) \o t1.items,
      signal2 |-> t2.signal,
      data2 |-> Drain(a.data2, Drain2) \o t2.items,
      window |-> <<F64Add(a.window[1], F64Int(1)), a.window[2]>>]

OnTickClonedSignal(a) ==
  LET t1 == Take(a.signal1, Take1)
      t2 == Take(a.signal2, Take2)
  IN [signal1 |-> a.signal1,
      data1 |-> Drain(a.data1, Drain1) \o t1.items,
      signal2 |-> t2.signal,
      data2 |-> Drain(a.data2, Drain2) \o t2.items,
      window |-> <<F64Add(a.window[1], F64Int(1)),
                   F64Add(a.window[2], F64Int(1))>>]

OnTickMisaligned(a) ==
  LET t1 == Take(a.signal1, Take1)
      t2 == Take(a.signal2, Take2 - 1)
  IN [signal1 |-> t1.signal,
      data1 |-> Drain(a.data1, Drain1) \o t1.items,
      signal2 |-> t2.signal,
      data2 |-> Drain(a.data2, Drain2 - 1) \o t2.items,
      window |-> <<F64Add(a.window[1], F64Int(1)),
                   F64Add(a.window[2], F64Int(1))>>]

OnTick(a) ==
  LET t1 == Take(a.signal1, Take1)
      t2 == Take(a.signal2, Take2)
  IN [signal1 |-> t1.signal,
      data1 |-> Drain(a.data1, Drain1) \o t1.items,
      signal2 |-> t2.signal,
      data2 |-> Drain(a.data2, Drain2) \o t2.items,
      window |-> <<F64Add(a.window[1], F64Int(1)),
                   F64Add(a.window[2], F64Int(1))>>]

(***************************************************************************)
(* run_app helpers                                                         *)
(***************************************************************************)
PlainSub(a, b) == a - b

SaturatingSub(a, b) == IF a > b THEN a - b ELSE 0

TickDueStrict(e, rate) == e > rate

TickDue(e, rate) == e >= rate

KeyQ == <<"Key", "q">>
NoEvent == <<"None", "">>
Events == {KeyQ, <<"Key", "a">>, <<"Mouse", "">>, <<"Resize", "">>}

IsQuitUpper(e) == e[1] = "Key" /\ e[2] = "Q"

IsQuitAnyKey(e) == e[1] = "Key"

IsQuit(e) == e[1] = "Key" /\ e[2] = "q"

\* The local `timeout`: <<>> while unbound, <<d>> once computed.
NoTimeout == <<>>

\* What ui() hands to the terminal: the animated chart's x-axis bounds and
\* labels and its two datasets (the other three charts are constant).
Ui(a) ==
  [bounds |-> a.window,
   x_labels |-> <<a.window[1],
                  F64Half(F64Add(a.window[1], a.window[2])),
                  a.window[2]>>,
   data1 |-> a.data1,
   data2 |-> a.data2]

NoFrame == [bounds |-> <<>>, x_labels |-> <<>>, data1 |-> <<>>, data2 |-> <<>>]

LoopPcs == {"draw", "timeout", "poll", "read", "check"}

(***************************************************************************)
(* Terminal state                                                          *)
(***************************************************************************)
TermOff == [raw |-> FALSE, alt |-> FALSE, mouse |-> FALSE]

RawEnabled(t) == [t EXCEPT !.raw = TRUE]
RawDisabled(t) == [t EXCEPT !.raw = FALSE]
Entered(t) == [t EXCEPT !.alt = TRUE, !.mouse = TRUE]
Left(t) == [t EXCEPT !.alt = FALSE, !.mouse = FALSE]

\* execute! writes its commands in order and stops at the first error, so
\* a failed execute! has applied a prefix of them (all of them when only
\* the final flush fails).
EnterFailed(t) == {t, [t EXCEPT !.alt = TRUE], Entered(t)}
LeaveFailed(t) == {t, [t EXCEPT !.alt = FALSE], Left(t)}

Init ==
  /\ pc = "enable_raw_mode"
  /\ term = TermOff
  /\ shown_cursor = FALSE
  /\ app = NoApp
  /\ elapsed = 0
  /\ timeout = NoTimeout
  /\ event = NoEvent
  /\ frame = NoFrame
  /\ res = "none"
  /\ ret = "none"
  /\ printed = FALSE
  /\ ticks = 0

\* `?` in main: return the error at once.
MainFails ==
  /\ ret' = "Err"
  /\ pc' = "exit"

(***************************************************************************)
(* main: setup                                                             *)
(***************************************************************************)
EnableRawMode ==
  /\ pc = "enable_raw_mode"
  /\ \/ /\ term' = RawEnabled(term)
        /\ pc' = "execute_enter"
        /\ UNCHANGED ret
     \/ /\ MainFails
        /\ UNCHANGED term
  /\ UNCHANGED <<shown_cursor, app, elapsed, timeout, event, frame, res,
                 printed, ticks>>

ExecuteEnter ==
  /\ pc = "execute_enter"
  /\ \/ /\ term' = Entered(term)
        /\ pc' = "terminal_new"
        /\ UNCHANGED ret
     \/ /\ MainFails
        /\ term' \in EnterFailed(term)
  /\ UNCHANGED <<shown_cursor, app, elapsed, timeout, event, frame, res,
                 printed, ticks>>

TerminalNew ==
  /\ pc = "terminal_new"
  /\ \/ /\ pc' = "app_new"
        /\ UNCHANGED ret
     \/ MainFails
  /\ UNCHANGED <<term, shown_cursor, app, elapsed, timeout, event, frame,
                 res, printed, ticks>>

CreateApp ==
  /\ pc = "app_new"
  /\ app' = AppNew
  /\ pc' = "run_app"
  /\ UNCHANGED <<term, shown_cursor, elapsed, timeout, event, frame, res,
                 ret, printed, ticks>>

(***************************************************************************)
(* run_app                                                                 *)
(***************************************************************************)
\* `?` in run_app: return the error to main, which goes on at line 114.
RunAppReturns(r) ==
  /\ res' = r
  /\ pc' = "disable_raw_mode"

RunAppStart ==
  /\ pc = "run_app"
  /\ elapsed' = 0
  /\ pc' = "draw"
  /\ UNCHANGED <<term, shown_cursor, app, timeout, event, frame, res, ret,
                 printed, ticks>>

\* A new iteration begins: its locals are not bound yet.  terminal.draw
\* can fail before the render callback (ui) has run or after it.
Draw ==
  /\ pc = "draw"
  /\ timeout' = NoTimeout
  /\ event' = NoEvent
  /\ \E d \in 0..MaxDelay : elapsed' = elapsed + d
  /\ \/ /\ frame' = Ui(app)
        /\ pc' = "timeout"
        /\ UNCHANGED res
     \/ /\ RunAppReturns("Err")
        /\ frame' \in {frame, Ui(app)}
  /\ UNCHANGED <<term, shown_cursor, app, ret, printed, ticks>>

ComputeTimeout ==
  /\ pc = "timeout"
  /\ timeout' = <<SaturatingSub(TickRate, elapsed)>>
  /\ pc' = "poll"
  /\ UNCHANGED <<term, shown_cursor, app, elapsed, event, frame, res, ret,
                 printed, ticks>>

\* event::poll(timeout) takes the timeout by value (the local is not read
\* again).  It returns true when an event is there, which the caller may
\* see up to MaxLate after the timeout has passed, and false once the
\* timeout has passed.
Poll ==
  /\ pc = "poll"
  /\ \/ \E w \in 0..(timeout[1] + MaxLate) :
          /\ elapsed' = elapsed + w
          /\ pc' = "read"
          /\ UNCHANGED res
     \/ \E late \in 0..MaxLate :
          /\ elapsed' = elapsed + timeout[1] + late
          /\ pc' = "check"
          /\ UNCHANGED res
     \/ /\ RunAppReturns("Err")
        /\ UNCHANGED elapsed
  /\ timeout' = NoTimeout
  /\ UNCHANGED <<term, shown_cursor, app, event, frame, ret, printed, ticks>>

Read ==
  /\ pc = "read"
  /\ \/ \E e \in Events :
          /\ event' = e
          /\ IF IsQuit(e)
             THEN RunAppReturns("Ok")
             ELSE pc' = "check" /\ UNCHANGED res
     \/ /\ RunAppReturns("Err")
        /\ UNCHANGED event
  /\ UNCHANGED <<term, shown_cursor, app, elapsed, timeout, frame, ret,
                 printed, ticks>>

Check ==
  /\ pc = "check"
  /\ IF TickDue(elapsed, TickRate)
     THEN IF OnTickPanics(app)
          THEN /\ pc' = "panic"
               /\ UNCHANGED <<app, elapsed, ticks>>
          ELSE /\ ticks < MaxTicks
               /\ app' = OnTick(app)
               /\ ticks' = ticks + 1
               /\ elapsed' = 0
               /\ pc' = "draw"
     ELSE /\ pc' = "draw"
          /\ UNCHANGED <<app, elapsed, ticks>>
  /\ UNCHANGED <<term, shown_cursor, timeout, event, frame, res, ret,
                 printed>>

(***************************************************************************)
(* main: restore                                                           *)
(***************************************************************************)
DisableRawMode ==
  /\ pc = "disable_raw_mode"
  /\ \/ /\ term' = RawDisabled(term)
        /\ pc' = "execute_leave"
        /\ UNCHANGED ret
     \/ /\ MainFails
        /\ UNCHANGED term
  /\ UNCHANGED <<shown_cursor, app, elapsed, timeout, event, frame, res,
                 printed, ticks>>

ExecuteLeave ==
  /\ pc = "execute_leave"
  /\ \/ /\ term' = Left(term)
        /\ pc' = "show_cursor"
        /\ UNCHANGED ret
     \/ /\ MainFails
        /\ term' \in LeaveFailed(term)
  /\ UNCHANGED <<shown_cursor, app, elapsed, timeout, event, frame, res,
                 printed, ticks>>

ShowCursor ==
  /\ pc = "show_cursor"
  /\ \/ /\ shown_cursor' = TRUE
        /\ pc' = "print"
        /\ UNCHANGED ret
     \/ /\ MainFails
        /\ UNCHANGED shown_cursor
  /\ UNCHANGED <<term, app, elapsed, timeout, event, frame, res, printed,
                 ticks>>

PrintAndReturn ==
  /\ pc = "print"
  /\ printed' = (res = "Err")
  /\ ret' = "Ok"
  /\ pc' = "exit"
  /\ UNCHANGED <<term, shown_cursor, app, elapsed, timeout, event, frame,
                 res, ticks>>

Next ==
  \/ EnableRawMode
  \/ ExecuteEnter
  \/ TerminalNew
  \/ CreateApp
  \/ RunAppStart
  \/ Draw
  \/ ComputeTimeout
  \/ Poll
  \/ Read
  \/ Check
  \/ DisableRawMode
  \/ ExecuteLeave
  \/ ShowCursor
  \/ PrintAndReturn

Spec == Init /\ [][Next]_vars

(***************************************************************************)
(* An App on its own                                                       *)
(***************************************************************************)
NewApp ==
  /\ app = NoApp
  /\ app' = AppNew
  /\ UNCHANGED <<pc, term, shown_cursor, elapsed, timeout, event, frame,
                 res, ret, printed, ticks>>

TickApp ==
  /\ app # NoApp
  /\ ticks < MaxAppTicks
  /\ IF OnTickPanics(app)
     THEN pc' = "panic" /\ UNCHANGED <<app, ticks>>
     ELSE app' = OnTick(app) /\ ticks' = ticks + 1 /\ UNCHANGED pc
  /\ UNCHANGED <<term, shown_cursor, elapsed, timeout, event, frame, res,
                 ret, printed>>

NextApp == NewApp \/ TickApp

SpecApp == Init /\ [][NextApp]_vars

(***************************************************************************)
(* Properties                                                              *)
(***************************************************************************)
NonQuitEvents == Events \ {KeyQ}

AppSame == app' = app /\ frame' = frame /\ ticks' = ticks

\* C1: reading the quit key makes run_app return Ok in that very step, with
\* no draw and no on_tick (App, frame and tick count unchanged) whatever
\* the elapsed time; once run_app has returned the loop is never re-entered
\* and App and frame stay as they are; and run_app returns only on the
\* quit key (Ok) or on an I/O error (Err).
C1_QuitStopsLoop ==
  /\ [][(pc = "read" /\ event' = KeyQ)
          => (res' = "Ok" /\ pc' = "disable_raw_mode" /\ AppSame
              /\ elapsed' = elapsed)]_vars
  /\ [][res # "none" => (res' = res /\ pc' \notin LoopPcs /\ AppSame)]_vars
  /\ [][(res = "none" /\ res' # "none")
          => \/ res' = "Ok" /\ pc = "read" /\ event' = KeyQ
             \/ res' = "Err"]_vars

C1_Witness ==
  /\ pc = "disable_raw_mode"
  /\ res = "Ok"
  /\ event = KeyQ
  /\ elapsed >= TickRate
  /\ ticks >= 1

\* C2: whenever main has returned, raw mode is disabled, the alternate
\* screen has been left and mouse capture is off.
C2_ReleasedOnEveryExit ==
  pc = "exit" => (~term.raw /\ ~term.alt /\ ~term.mouse)

\* C3: the step that ends an iteration (the deadline check) invokes on_tick
\* exactly once and sets last_tick to now (elapsed becomes 0) when the
\* elapsed time is at least the tick rate, and otherwise leaves App, the
\* tick count and last_tick alone; a non-quit event read earlier in the
\* iteration makes no difference.
C3_TickWhenDue ==
  [][(pc = "check" /\ pc' # "check")
       => IF elapsed >= TickRate
          THEN /\ ticks' = ticks + 1
               /\ app'.window[1] = F64Add(app.window[1], F64Int(1))
               /\ F64Less(app.signal1.x, app'.signal1.x)
               /\ F64Less(app.signal2.x, app'.signal2.x)
               /\ elapsed' = 0
               /\ pc' = "draw"
          ELSE /\ ticks' = ticks
               /\ app' = app
               /\ elapsed' = elapsed
               /\ pc' = "draw"]_vars

\* A non-quit key was read and the deadline check then ticked: the App is
\* ahead of the frame drawn at the start of the iteration.
C3_Witness ==
  /\ pc = "draw"
  /\ event = <<"Key", "a">>
  /\ elapsed = 0
  /\ ticks >= 1
  /\ frame.bounds # app.window

\* C4: once the App exists, data1 and data2 hold exactly 200 points each,
\* so drain(0..5) and drain(0..10) are in range and on_tick never panics.
C4_WindowSizeConstant ==
  /\ pc # "panic"
  /\ app # NoApp =>
       /\ Len(app.data1) = WindowLen
       /\ Len(app.data2) = WindowLen
       /\ Drain1 <= Len(app.data1)
       /\ Drain2 <= Len(app.data2)

C4_Witness ==
  /\ app # NoApp
  /\ ticks = 3
  /\ Len(app.data1) = WindowLen
  /\ Len(app.data2) = WindowLen

\* C5: after n ticks the visible x-range is [n, n + 20]; w0 < w1 always;
\* neither endpoint ever decreases.
C5_WindowAdvances ==
  /\ [](app # NoApp =>
          /\ app.window = <<F64Int(ticks), F64Int(ticks + 20)>>
          /\ F64Less(app.window[1], app.window[2]))
  /\ [][(app # NoApp /\ app' # NoApp)
          => /\ ~F64Less(app'.window[1], app.window[1])
             /\ ~F64Less(app'.window[2], app.window[2])]_vars

C5_Witness ==
  /\ ticks = 20
  /\ app.window = <<F64Int(20), F64Int(40)>>

\* An I/O failure of terminal.draw, event::poll or event::read makes
\* run_app return Err in that very step, with no on_tick and no render but
\* the one the failing draw may have made itself; after it the loop is
\* never re-entered and App and frame stay as they are.
C6_AbortsLoop ==
  /\ [][(res = "none" /\ res' = "Err")
          => /\ pc \in {"draw", "poll", "read"}
             /\ pc' = "disable_raw_mode"
             /\ app' = app
             /\ ticks' = ticks
             /\ frame' = frame \/ (pc = "draw" /\ frame' = Ui(app))]_vars
  /\ [][res = "Err"
          => (res' = "Err" /\ pc' \notin LoopPcs /\ AppSame)]_vars

\* C6: an I/O failure inside run_app aborts the loop at once, and main
\* returns only after the terminal restoration has run (raw mode disabled,
\* alternate screen left, mouse capture disabled, cursor shown) and the
\* error was printed.
C6_ErrorAbortsAndRestores ==
  /\ C6_AbortsLoop
  /\ []((pc = "exit" /\ res = "Err")
          => (term = TermOff /\ shown_cursor /\ printed))

\* C7: reading an event other than the quit key changes neither the App
\* nor last_tick, keeps run_app running and goes on to the deadline check,
\* from which the loop goes back to draw.
C7_OtherEventsIgnored ==
  /\ [][(pc = "read" /\ event' \in NonQuitEvents)
          => /\ app' = app
             /\ ticks' = ticks
             /\ elapsed' = elapsed
             /\ res' = "none"
             /\ pc' = "check"]_vars
  /\ [][(pc = "check" /\ event \in NonQuitEvents /\ pc' # "check")
          => (pc' = "draw" /\ res' = "none")]_vars

C7_Witness ==
  /\ pc = "draw"
  /\ event = <<"Resize", "">>
  /\ res = "none"
  /\ ticks = 0

\* C8: the timeout handed to event::poll is never negative: TickRate minus
\* the elapsed time when that is positive, and 0 when the elapsed time is
\* TickRate or more.
C8_TimeoutSaturates ==
  pc = "poll" =>
    /\ timeout[1] >= 0
    /\ elapsed < TickRate => timeout[1] = TickRate - elapsed
    /\ elapsed >= TickRate => timeout[1] = 0

C8_Witness ==
  /\ pc = "poll"
  /\ elapsed > TickRate
  /\ timeout = <<0>>

\* v * n, exactly (n a small natural number; the high limb is left to
\* grow past LimbBase).
ExactMul(v, n) == Normalise(<<v[1] * n, v[2] * n, v[3] * n>>)

\* The x a fresh generator with the parameters of s holds after n calls of
\* next.
XAfter(s, n) ==
  Take(SinSignalNew(s.interval, s.period, s.scale), n).signal.x

NextIsSome(s) ==
  /\ SinSignalNext(s).item[1] = "Some"
  /\ SinSignalNext(s).item[2] = <<s.x, SinY(s.x, s.period, s.scale)>>
  /\ F64Less(s.x, SinSignalNext(s).signal.x)

\* data is the points first .. first + Len(data) - 1, in order, of a
\* generator whose x is exactly index * interval, and s is about to yield
\* the point after them.
ContiguousExact(data, s, first) ==
  /\ \A j \in 1..Len(data) :
       data[j] = <<ExactMul(s.interval, first + j - 1),
                   SinY(ExactMul(s.interval, first + j - 1), s.period, s.scale)>>
  /\ s.x = ExactMul(s.interval, first + Len(data))
  /\ NextIsSome(s)

\* The same with the x the program computes: each x is the f64 sum of the
\* one before and interval.
ContiguousF64(data, s, first) ==
  /\ data[1][1] = XAfter(s, first)
  /\ \A j \in 1..Len(data) :
       data[j][2] = SinY(data[j][1], s.period, s.scale)
  /\ \A j \in 1..(Len(data) - 1) :
       /\ data[j + 1][1] = F64Add(data[j][1], s.interval)
       /\ F64Less(data[j][1], data[j + 1][1])
  /\ s.x = F64Add(data[Len(data)][1], s.interval)
  /\ F64Less(data[Len(data)][1], s.x)
  /\ NextIsSome(s)

\* C9 as stated: x starts at 0 and advances by exactly interval per call,
\* so that after k ticks data1 is the points 5k .. 5k+199 and data2 the
\* points 10k .. 10k+199 with x = index * interval.
C9_AdvancesExactly ==
  app # NoApp =>
    /\ ContiguousExact(app.data1, app.signal1, Drain1 * ticks)
    /\ ContiguousExact(app.data2, app.signal2, Drain2 * ticks)

\* C9, amended: x starts at 0 and each call of next advances it to the f64
\* sum x + interval (rounded to nearest), strictly above the x before;
\* next always returns Some; after k ticks data1 is the generator's points
\* 5k .. 5k+199 and data2 the points 10k .. 10k+199, in order, none skipped
\* or duplicated; the generator's x never goes back.
C9_ContiguousRun ==
  /\ [](app # NoApp =>
          /\ Len(app.data1) = WindowLen
          /\ Len(app.data2) = WindowLen
          /\ ContiguousF64(app.data1, app.signal1, Drain1 * ticks)
          /\ ContiguousF64(app.data2, app.signal2, Drain2 * ticks))
  /\ [][(app # NoApp /\ app' # NoApp)
          => /\ ~F64Less(app'.signal1.x, app.signal1.x)
             /\ ~F64Less(app'.signal2.x, app.signal2.x)]_vars

\* After two ticks: data2 starts at the 20-fold sum of 0.1, which is
\* 2.0000000000000004, and data1 at the 10-fold sum of 0.2, which is
\* 1.9999999999999998; signal1 holds 42.00000000000006.
C9_Witness ==
  /\ ticks = 2
  /\ app.data2[1][1] = <<32768, 0, 32>>
  /\ app.data1[1][1] = <<32767, 2097151, 2097136>>
  /\ app.signal1.x = <<688128, 0, 4096>>

\* The decimal step of a generator, in tenths: 2 for the literal 0.2 and
\* 1 for the literal 0.1.
StepTenths(s) == IF s.interval = F64Fifth THEN 2 ELSE 1

\* The index of the point whose x, in exact arithmetic, is t tenths.
IndexAtTenths(s, t) == t \div StepTenths(s)

\* The whole number an integral f64 is worth.
WholeOf(v) == v[1] \div 2^14

\* C10: in exact arithmetic (the x of point i being i times the decimal
\* interval) the oldest point of data1 and of data2 is the point whose x
\* is window[0]; the newest point of data2 is the one at window[0] + 19.9,
\* inside the window, and the newest point of data1 the one at
\* window[0] + 39.8, beyond window[1].
C10_AlignedInExactArithmetic ==
  app # NoApp =>
    LET w0 == 10 * WholeOf(app.window[1])
        w1 == 10 * WholeOf(app.window[2])
        s1 == app.signal1
        s2 == app.signal2
    IN /\ app.window = <<F64Int(WholeOf(app.window[1])),
                         F64Int(WholeOf(app.window[2]))>>
       /\ w0 % StepTenths(s1) = 0
       /\ app.data1[1][1] = XAfter(s1, IndexAtTenths(s1, w0))
       /\ app.data2[1][1] = XAfter(s2, IndexAtTenths(s2, w0))
       /\ app.data2[Len(app.data2)][1] = XAfter(s2, IndexAtTenths(s2, w0 + 199))
       /\ w0 + 199 < w1
       /\ (w0 + 398) % StepTenths(s1) = 0
       /\ app.data1[Len(app.data1)][1] = XAfter(s1, IndexAtTenths(s1, w0 + 398))
       /\ w0 + 398 > w1

\* After one tick the window starts at 1.0 and both windows start at the
\* point whose exact x is 1.0 (index 5, resp. 10); the f64 x of the latter
\* is the 10-fold sum of 0.1, 0.9999999999999999.
C10_Witness ==
  /\ ticks = 1
  /\ app.window = <<F64Int(1), F64Int(21)>>
  /\ app.data2[1][1] = <<16383, 2097151, 2097144>>
  /\ app.data1[1][1] = F64Int(1)

====
